---- MODULE Spec2Model ----
(***************************************************************************)
(* Model of the timed question-response collector (UserQuestionEntry, its  *)
(* QuestionForm handlers and the useQuestionCountdown hook), and of the    *)
(* Notion import dialog (NotionImportDialogImpl).                          *)
(*                                                                         *)
(* Conventions.  JavaScript numbers are integers (milliseconds or whole    *)
(* seconds) plus the value NaN.  Strings that the code inspects (the       *)
(* custom text) are sequences of one-character strings; `undefined` is the *)
(* tuple Undefined, which is no such sequence.  Array positions keep the   *)
(* source's 0-based numbering: slot k of an array a is a[k + 1].           *)
(* React renders after every state change and before the next event, so    *)
(* each handler reads the current state, and an effect whose dependencies  *)
(* changed is re-run within the step that changed them.                    *)
(***************************************************************************)
EXTENDS Integers, Sequences, FiniteSets, TLC

VARIABLES
    pendingStatus,        \* prop: questions, requested_at, timeout_at (ms or NaN)
    executionProcessId,   \* prop: string, or Undefined
    now,                  \* Date.now(), in ms
    mounted,              \* the component is mounted
    answers,              \* useState<QuestionAnswer[]>
    isResponding,         \* useState(false)
    hasResponded,         \* useState(false)
    error,                \* useState<string | null>
    timeLeft,             \* useState<number> of useQuestionCountdown
    intervals,            \* number of window.setInterval timers not yet cleared
    pending,              \* payloads of the respond calls not yet completed
    acked,                \* number of respond calls acknowledged
    lastEvent,            \* the last handler that ran: its name, the question
                          \* it was for, and whether it found 'other' selected
                          \* (an edit) or an error displayed (a respond call)
    preview,              \* NotionImportDialog: useQuery state and data
    selectedIds,          \* NotionImportDialog: useState<Set<string>>
    importStatus,         \* NotionImportDialog: importMutation.status
    visible,              \* NotionImportDialog: modal.visible
    modalCalls,           \* the calls made on the modal and the query client
                          \* since the dialog was opened, in order
    importCalls           \* notionImportApi.import calls not yet completed

collectorVars ==
    <<pendingStatus, executionProcessId, now, mounted, answers, isResponding,
      hasResponded, error, timeLeft, intervals, pending, acked, lastEvent>>

dialogVars ==
    <<preview, selectedIds, importStatus, visible, modalCalls, importCalls>>

vars == <<pendingStatus, executionProcessId, now, mounted, answers, isResponding,
          hasResponded, error, timeLeft, intervals, pending, acked, lastEvent,
          preview, selectedIds, importStatus, visible, modalCalls, importCalls>>

----------------------------------------------------------------------------
(* Bounds of the model *)

MaxNow == 2000
ClockStep == 500

(* Program constants *)

MsPerSecond == 1000
NaN == -1000000000

Chars == {" ", "a"}
Undefined == <<"undefined">>
Null == "null"
MissingIdMessage == "Missing executionProcessId"
GenericFailureMessage == "Failed to send response"

(* The texts the modelled user enters: empty, blank, and non-blank *)
Texts == {<<>>, <<" ">>, <<" ", "a">>}

(* The question sets the collector is mounted with: a single-select       *)
(* question with two options, then a multi-select question with two       *)
(* options or with eleven.                                                *)
QuestionSets ==
    { << [multiSelect |-> FALSE, numOptions |-> 2],
         [multiSelect |-> TRUE, numOptions |-> n] >> : n \in {2, 11} }

Questions == pendingStatus.questions

QuestionIndexes == 0..(Len(Questions) - 1)

(* The options the modelled user clicks on: the last two of the question. *)
ClickedOptions(question) == {question.numOptions - 2, question.numOptions - 1}

----------------------------------------------------------------------------
(* JavaScript arithmetic with NaN *)

IsNaN(x) == x = NaN

Minus(a, b) == IF IsNaN(a) \/ IsNaN(b) THEN NaN ELSE a - b

FloorDiv(a, d) == IF IsNaN(a) THEN NaN ELSE a \div d

MathMax(a, b) == IF IsNaN(a) \/ IsNaN(b) THEN NaN ELSE IF a >= b THEN a ELSE b

MathMin(a, b) == IF IsNaN(a) \/ IsNaN(b) THEN NaN ELSE IF a <= b THEN a ELSE b

LessEq(a, b) == ~IsNaN(a) /\ ~IsNaN(b) /\ a <= b

Greater(a, b) == ~IsNaN(a) /\ ~IsNaN(b) /\ a > b

(* (t / total) * 100 in double precision.  The quotient is rounded to a    *)
(* double before it is multiplied, so a product whose exact value ends in  *)
(* .5 can come out one unit in the last place below it: 23 / 40 * 100 is   *)
(* 57.49999999999999.  For totals of up to 61 seconds these are the only   *)
(* arguments whose product lies on the other side of a half than the exact *)
(* value; everywhere else the two round alike.                             *)
ProductFallsBelowHalf(t, total) == total = 40 /\ t \in {23, 41, 51, 87, 97}

(* Math.round((t / total) * 100): the integer nearest to the double        *)
(* product, halves upwards                                                 *)
RoundPercent(t, total) ==
    IF IsNaN(t) \/ IsNaN(total) THEN NaN
    ELSE IF ProductFallsBelowHalf(t, total) THEN (100 * t) \div total
    ELSE (200 * t + total) \div (2 * total)

----------------------------------------------------------------------------
(* useQuestionCountdown *)

TotalSecondsOf(requestedAt, timeoutAt) ==
    MathMax(1, FloorDiv(Minus(timeoutAt, requestedAt), MsPerSecond))

(* Variant: the remaining time is not clamped at 0 *)
RemainingSecondsUnclamped(timeoutAt, dateNow) ==
    FloorDiv(Minus(timeoutAt, dateNow), MsPerSecond)

(* Variant: the remaining time is clamped at 1 *)
RemainingSecondsAtLeastOne(timeoutAt, dateNow) ==
    MathMax(1, FloorDiv(Minus(timeoutAt, dateNow), MsPerSecond))

RemainingSeconds(timeoutAt, dateNow) ==
    MathMax(0, FloorDiv(Minus(timeoutAt, dateNow), MsPerSecond))

PercentOf(t, total) == MathMax(0, MathMin(100, RoundPercent(t, total)))

totalSeconds == TotalSecondsOf(pendingStatus.requested_at, pendingStatus.timeout_at)

percent == PercentOf(timeLeft, totalSeconds)

----------------------------------------------------------------------------
(* Array.prototype.sort() without a comparator: elements are ordered by    *)
(* their decimal strings, compared code unit by code unit; stable.         *)

RECURSIVE Digits(_)
Digits(n) == IF n < 10 THEN <<n>> ELSE Append(Digits(n \div 10), n % 10)

RECURSIVE LexLess(_, _)
LexLess(a, b) ==
    IF b = <<>> THEN FALSE
    ELSE IF a = <<>> THEN TRUE
    ELSE IF Head(a) # Head(b) THEN Head(a) < Head(b)
    ELSE LexLess(Tail(a), Tail(b))

SortBefore(x, y) == LexLess(Digits(x), Digits(y))

RECURSIVE SortedInsert(_, _)
SortedInsert(s, x) ==
    IF s = <<>> THEN <<x>>
    ELSE IF SortBefore(x, Head(s)) THEN <<x>> \o s
    ELSE <<Head(s)>> \o SortedInsert(Tail(s), x)

RECURSIVE ArraySort(_)
ArraySort(s) ==
    IF s = <<>> THEN <<>>
    ELSE SortedInsert(ArraySort(SubSeq(s, 1, Len(s) - 1)), s[Len(s)])

Includes(s, x) == \E k \in 1..Len(s) : s[k] = x

(* String.prototype.trim *)
IsSpace(c) == c = " "

RECURSIVE TrimStart(_)
TrimStart(t) == IF t # <<>> /\ IsSpace(Head(t)) THEN TrimStart(Tail(t)) ELSE t

RECURSIVE TrimEnd(_)
TrimEnd(t) ==
    IF t # <<>> /\ IsSpace(t[Len(t)]) THEN TrimEnd(SubSeq(t, 1, Len(t) - 1)) ELSE t

(* Variant: the text is tested without trimming *)
TrimNothing(t) == t

Trim(t) == TrimEnd(TrimStart(t))

----------------------------------------------------------------------------
(* QuestionForm: the answer builders *)

hasOtherSelected(answer) == answer.custom_text # Undefined

(* Variant: a single-select choice does not clear the custom text *)
handleOptionChangeKeepsText(question, answer, optionIndex, checked) ==
    IF question.multiSelect
    THEN [answer EXCEPT !.selected_options =
              IF checked THEN ArraySort(Append(@, optionIndex))
              ELSE SelectSeq(@, LAMBDA j : j # optionIndex)]
    ELSE [answer EXCEPT !.selected_options =
              IF checked THEN <<optionIndex>> ELSE <<>>]

(* Variant: a checked option is appended and the array is not sorted *)
handleOptionChangeUnsorted(question, answer, optionIndex, checked) ==
    IF question.multiSelect
    THEN [answer EXCEPT !.selected_options =
              IF checked THEN Append(@, optionIndex)
              ELSE SelectSeq(@, LAMBDA j : j # optionIndex)]
    ELSE IF checked /\ hasOtherSelected(answer)
    THEN [answer EXCEPT !.selected_options = <<optionIndex>>,
                        !.custom_text = Undefined]
    ELSE [answer EXCEPT !.selected_options =
              IF checked THEN <<optionIndex>> ELSE <<>>]

handleOptionChange(question, answer, optionIndex, checked) ==
    IF question.multiSelect
    THEN [answer EXCEPT !.selected_options =
              IF checked THEN ArraySort(Append(@, optionIndex))
              ELSE SelectSeq(@, LAMBDA j : j # optionIndex)]
    ELSE IF checked /\ hasOtherSelected(answer)
    THEN [answer EXCEPT !.selected_options = <<optionIndex>>,
                        !.custom_text = Undefined]
    ELSE [answer EXCEPT !.selected_options =
              IF checked THEN <<optionIndex>> ELSE <<>>]

(* Variant: enabling 'other' empties the selection of every question *)
handleOtherToggleClearsSelection(question, answer, checked) ==
    IF checked
    THEN [answer EXCEPT !.selected_options = <<>>, !.custom_text = <<>>]
    ELSE [answer EXCEPT !.custom_text = Undefined]

(* Variant: enabling 'other' keeps the selection of every question *)
handleOtherToggleKeepsSelection(question, answer, checked) ==
    IF checked
    THEN [answer EXCEPT !.custom_text = <<>>]
    ELSE [answer EXCEPT !.custom_text = Undefined]

handleOtherToggle(question, answer, checked) ==
    IF checked
    THEN [answer EXCEPT !.selected_options =
                            IF question.multiSelect THEN @ ELSE <<>>,
                        !.custom_text = <<>>]
    ELSE [answer EXCEPT !.custom_text = Undefined]

handleCustomTextChange(answer, text) == [answer EXCEPT !.custom_text = text]

----------------------------------------------------------------------------
(* UserQuestionEntry: derived values *)

InitialAnswers ==
    [k \in 1..Len(Questions) |->
        [question_index |-> k - 1, selected_options |-> <<>>,
         custom_text |-> Undefined]]

(* Variants: disabled leaves out hasResponded, or isResponding *)
DisabledIgnoresResponded(responding, responded, left) ==
    responding \/ LessEq(left, 0)

DisabledIgnoresResponding(responding, responded, left) ==
    responded \/ LessEq(left, 0)

Disabled(responding, responded, left) ==
    responding \/ responded \/ LessEq(left, 0)

disabled == Disabled(isResponding, hasResponded, timeLeft)

IsAnswered(answer) ==
    LET hasSelection == Len(answer.selected_options) > 0
        hasCustomText ==
            answer.custom_text # Undefined /\ Trim(answer.custom_text) # <<>>
    IN  hasSelection \/ hasCustomText

AllAnswered(as) == \A k \in 1..Len(as) : IsAnswered(as[k])

allQuestionsAnswered == AllAnswered(answers)

(* Variant: the new answer is written into every slot *)
handleAnswerChangeAllSlots(prev, questionIndex, answer) ==
    [k \in 1..Len(prev) |-> answer]

handleAnswerChange(prev, questionIndex, answer) ==
    [prev EXCEPT ![questionIndex + 1] = answer]

(* Variant: only undefined counts as a missing id *)
FalsyOnlyUndefined(id) == id = Undefined

(* !executionProcessId *)
Falsy(id) == id = Undefined \/ id = <<>>

(* Variant: handleSubmit closes over the answers of the first render *)
ResponseOfFirstRender(id, as) ==
    [execution_process_id |-> id, answers |-> InitialAnswers]

ResponseOf(id, as) == [execution_process_id |-> id, answers |-> as]

(* Variant: the message is read without the instanceof test *)
ErrorMessageUnchecked(e) == e.message

(* e instanceof Error ? e.message : 'Failed to send response' *)
ErrorMessageOf(e) == IF e.isError THEN e.message ELSE GenericFailureMessage

----------------------------------------------------------------------------
(* Inputs *)

ProcessIds == {Undefined, <<>>, <<"p">>}

(* Well-formed timestamps (already expired at mount, or expiring at       *)
(* MaxNow), a malformed timeout_at, a malformed requested_at.             *)
Timestamps ==
    { [requested_at |-> 0, timeout_at |-> 0],
      [requested_at |-> 0, timeout_at |-> MaxNow],
      [requested_at |-> 0, timeout_at |-> NaN],
      [requested_at |-> NaN, timeout_at |-> MaxNow] }

PendingStatuses ==
    { [questions |-> qs, requested_at |-> t.requested_at,
       timeout_at |-> t.timeout_at] : qs \in QuestionSets, t \in Timestamps }

(* What a rejected respond call throws: an Error with a message, an Error *)
(* with an empty message, or a value that is no Error.                   *)
Failures ==
    { [isError |-> TRUE, message |-> "network error"],
      [isError |-> TRUE, message |-> ""],
      [isError |-> FALSE, message |-> "not an Error"] }

Event(op, q, other) == [op |-> op, q |-> q, other |-> other]

----------------------------------------------------------------------------
(* NotionImportDialog: the dialog as it is opened.  The preview query is   *)
(* loading, nothing is selected, the mutation is idle, the modal is        *)
(* visible and no call has been made on it.                                *)

NotionIds == {"n1", "n2", "n3"}

(* useQuery: the tasks of a loaded preview are NotionIds, of which         *)
(* `importable` have will_import set                                       *)
PreviewLoading == [status |-> "loading", importable |-> {}]

PreviewError == [status |-> "error", importable |-> {}]

PreviewOf(importable) == [status |-> "success", importable |-> importable]

InitDialog ==
    /\ preview = PreviewLoading
    /\ selectedIds = {}
    /\ importStatus = "idle"
    /\ visible = TRUE
    /\ modalCalls = <<>>
    /\ importCalls = <<>>

----------------------------------------------------------------------------
(* Mount: the useState initialisers and the first run of the effect, which *)
(* starts the interval because paused (hasResponded) is false.             *)

Init ==
    /\ pendingStatus \in PendingStatuses
    /\ executionProcessId \in ProcessIds
    /\ now = 0
    /\ mounted = TRUE
    /\ answers = InitialAnswers
    /\ isResponding = FALSE
    /\ hasResponded = FALSE
    /\ error = Null
    /\ timeLeft = RemainingSeconds(pendingStatus.timeout_at, now)
    /\ intervals = 1
    /\ pending = <<>>
    /\ acked = 0
    /\ lastEvent = Event("mount", 0, FALSE)
    /\ InitDialog

(* Variant: the effect does not depend on paused *)
EffectIgnoresPaused(wasPaused, paused, active) == active

(* The effect of useQuestionCountdown after a render with the given paused *)
(* flag: its cleanup clears the interval, its body starts one unless       *)
(* paused.  It re-runs only when paused (or timeoutAt) changed.            *)
EffectIntervals(wasPaused, paused, active) ==
    IF paused = wasPaused THEN active
    ELSE IF paused THEN 0 ELSE 1

----------------------------------------------------------------------------
(* The interval callback *)

IntervalTick ==
    /\ mounted
    /\ intervals > 0
    /\ LET next == RemainingSeconds(pendingStatus.timeout_at, now)
       IN  /\ timeLeft' = next
           /\ intervals' = IF LessEq(next, 0) THEN intervals - 1 ELSE intervals
    /\ lastEvent' = Event("tick", 0, FALSE)
    /\ UNCHANGED <<pendingStatus, executionProcessId, now, mounted, answers,
                   isResponding, hasResponded, error, pending, acked>>
    /\ UNCHANGED dialogVars

(* Wall-clock time passes *)
ClockAdvance ==
    /\ now + ClockStep <= MaxNow
    /\ now' = now + ClockStep
    /\ UNCHANGED <<pendingStatus, executionProcessId, mounted, answers,
                   isResponding, hasResponded, error, timeLeft, intervals,
                   pending, acked, lastEvent>>
    /\ UNCHANGED dialogVars

(* The component is unmounted: the effect's cleanup clears the interval *)
Unmount ==
    /\ mounted
    /\ mounted' = FALSE
    /\ intervals' = 0
    /\ lastEvent' = Event("unmount", 0, FALSE)
    /\ UNCHANGED <<pendingStatus, executionProcessId, now, answers,
                   isResponding, hasResponded, error, timeLeft, pending,
                   acked>>
    /\ UNCHANGED dialogVars

----------------------------------------------------------------------------
(* The controls of QuestionForm.  Each is rendered with disabled=disabled, *)
(* so it delivers events only while the collector is enabled.              *)

Edit(q, answer, ev) ==
    /\ lastEvent' = ev
    /\ answers' = handleAnswerChange(answers, q, answer)
    /\ UNCHANGED <<pendingStatus, executionProcessId, now, mounted,
                   isResponding, hasResponded, error, timeLeft, intervals,
                   pending, acked>>
    /\ UNCHANGED dialogVars

(* A checkbox reports the opposite of what it shows; a radio item reports *)
(* its value, which is handled as checked.                                *)
ClickOption(q, i) ==
    /\ mounted
    /\ ~disabled
    /\ LET question == Questions[q + 1]
           answer == answers[q + 1]
           checked == IF question.multiSelect
                      THEN ~Includes(answer.selected_options, i)
                      ELSE TRUE
       IN  Edit(q, handleOptionChange(question, answer, i, checked),
                Event("option", q, hasOtherSelected(answer)))

ClickOther(q) ==
    /\ mounted
    /\ ~disabled
    /\ LET question == Questions[q + 1]
           answer == answers[q + 1]
           checked == IF question.multiSelect
                      THEN ~hasOtherSelected(answer)
                      ELSE TRUE
       IN  Edit(q, handleOtherToggle(question, answer, checked),
                Event("other", q, hasOtherSelected(answer)))

(* Variant: the text input is rendered whether or not "other" is selected *)
TextInputAlwaysRendered(answer) == TRUE

(* {hasOtherSelected && (<Input ... />)} *)
TextInputRendered(answer) == hasOtherSelected(answer)

(* The text input exists only while "other" is selected *)
TypeText(q, text) ==
    /\ mounted
    /\ ~disabled
    /\ TextInputRendered(answers[q + 1])
    /\ Edit(q, handleCustomTextChange(answers[q + 1], text),
            Event("text", q, TRUE))

----------------------------------------------------------------------------
(* handleSubmit, up to the await *)

SubmitBlocked(isDisabled, allAnswered) == isDisabled \/ ~allAnswered

ClickSubmit ==
    /\ mounted
    /\ IF SubmitBlocked(disabled, allQuestionsAnswered)
       THEN /\ lastEvent' = Event("submitIgnored", 0, FALSE)
            /\ UNCHANGED <<isResponding, error, pending>>
       ELSE IF Falsy(executionProcessId)
       THEN /\ error' = MissingIdMessage
            /\ lastEvent' = Event("submitNoId", 0, FALSE)
            /\ UNCHANGED <<isResponding, pending>>
       ELSE /\ isResponding' = TRUE
            /\ error' = Null
            /\ pending' = Append(pending, ResponseOf(executionProcessId, answers))
            /\ lastEvent' = Event("respond", 0, error # Null)
    /\ UNCHANGED <<pendingStatus, executionProcessId, now, mounted, answers,
                   hasResponded, timeLeft, intervals, acked>>
    /\ UNCHANGED dialogVars

(* Variant: an acknowledgement that arrives after the countdown reached 0  *)
(* is not applied                                                          *)
RespondResolvesUnlessExpired ==
    /\ pending # <<>>
    /\ pending' = Tail(pending)
    /\ acked' = acked + 1
    /\ IF mounted /\ ~LessEq(timeLeft, 0)
       THEN /\ hasResponded' = TRUE
            /\ isResponding' = FALSE
            /\ intervals' = EffectIntervals(hasResponded, TRUE, intervals)
            /\ lastEvent' = Event("resolved", 0, FALSE)
       ELSE UNCHANGED <<hasResponded, isResponding, intervals, lastEvent>>
    /\ UNCHANGED <<pendingStatus, executionProcessId, now, mounted, answers,
                   error, timeLeft>>
    /\ UNCHANGED dialogVars

(* handleSubmit after the await.  State updates of an unmounted component *)
(* are dropped.                                                           *)
RespondResolves ==
    /\ pending # <<>>
    /\ pending' = Tail(pending)
    /\ acked' = acked + 1
    /\ IF mounted
       THEN /\ hasResponded' = TRUE
            /\ isResponding' = FALSE
            /\ intervals' = EffectIntervals(hasResponded, TRUE, intervals)
            /\ lastEvent' = Event("resolved", 0, FALSE)
       ELSE UNCHANGED <<hasResponded, isResponding, intervals, lastEvent>>
    /\ UNCHANGED <<pendingStatus, executionProcessId, now, mounted, answers,
                   error, timeLeft>>
    /\ UNCHANGED dialogVars

RespondRejects(e) ==
    /\ pending # <<>>
    /\ pending' = Tail(pending)
    /\ IF mounted
       THEN /\ error' = ErrorMessageOf(e)
            /\ isResponding' = FALSE
            /\ lastEvent' = Event("rejected", 0, FALSE)
       ELSE UNCHANGED <<error, isResponding, lastEvent>>
    /\ UNCHANGED <<pendingStatus, executionProcessId, now, mounted, answers,
                   hasResponded, timeLeft, intervals, acked>>
    /\ UNCHANGED dialogVars

----------------------------------------------------------------------------

Next ==
    \/ IntervalTick
    \/ ClockAdvance
    \/ Unmount
    \/ \E q \in QuestionIndexes :
          \E i \in ClickedOptions(Questions[q + 1]) : ClickOption(q, i)
    \/ \E q \in QuestionIndexes : ClickOther(q)
    \/ \E q \in QuestionIndexes : \E text \in Texts : TypeText(q, text)
    \/ ClickSubmit
    \/ RespondResolves
    \/ \E e \in Failures : RespondRejects(e)

Spec == Init /\ [][Next]_vars

----------------------------------------------------------------------------
(* The countdown on its own: the hook mounted at an instant before or      *)
(* after the request, with a timeout before, at or after the request, and  *)
(* the clock running on to a minute and a second past the request.         *)

CountdownHorizon == 61000

RequestInstant == 5000

(* timeout_at - requested_at, in ms *)
Durations == {-3000, 0, 500, 40000, 60000}

(* Date.now() - requested_at at mount, in ms *)
MountOffsets == {-2000, 0}

ClockJumps == {500, 1000, 16000, 30000}

InitCountdown ==
    /\ \E d \in Durations :
          pendingStatus =
              [questions |-> << [multiSelect |-> FALSE, numOptions |-> 2] >>,
               requested_at |-> RequestInstant,
               timeout_at |-> RequestInstant + d]
    /\ executionProcessId = <<"p">>
    /\ \E o \in MountOffsets : now = RequestInstant + o
    /\ mounted = TRUE
    /\ answers = InitialAnswers
    /\ isResponding = FALSE
    /\ hasResponded = FALSE
    /\ error = Null
    /\ timeLeft = RemainingSeconds(pendingStatus.timeout_at, now)
    /\ intervals = 1
    /\ pending = <<>>
    /\ acked = 0
    /\ lastEvent = Event("mount", 0, FALSE)
    /\ InitDialog

(* Wall-clock time passes; timeLeft is stale until the next tick *)
ClockJump(d) ==
    /\ now + d <= RequestInstant + CountdownHorizon
    /\ now' = now + d
    /\ lastEvent' = Event("clock", 0, FALSE)
    /\ UNCHANGED <<pendingStatus, executionProcessId, mounted, answers,
                   isResponding, hasResponded, error, timeLeft, intervals,
                   pending, acked>>
    /\ UNCHANGED dialogVars

NextCountdown ==
    \/ IntervalTick
    \/ \E d \in ClockJumps : ClockJump(d)

SpecCountdown == InitCountdown /\ [][NextCountdown]_vars

----------------------------------------------------------------------------
(* The collector with a timeout timestamp that the enclosing view may      *)
(* change while it is mounted: one question, well-formed timestamps.       *)

(* Variant: the effect is re-run without its cleanup *)
EffectRestartWithoutCleanup(paused, active) ==
    active + (IF paused THEN 0 ELSE 1)

(* The effect of useQuestionCountdown re-run because timeoutAt changed:    *)
(* the cleanup of the previous run clears its interval (if it is still     *)
(* active), the body starts a new one unless paused.                       *)
EffectRestart(paused, active) ==
    (IF active > 0 THEN active - 1 ELSE 0) + (IF paused THEN 0 ELSE 1)

TimeoutChoices == {0, MsPerSecond, MaxNow}

InitProps ==
    /\ \E t \in TimeoutChoices :
          pendingStatus =
              [questions |-> << [multiSelect |-> FALSE, numOptions |-> 2] >>,
               requested_at |-> 0, timeout_at |-> t]
    /\ executionProcessId = <<"p">>
    /\ now = 0
    /\ mounted = TRUE
    /\ answers = InitialAnswers
    /\ isResponding = FALSE
    /\ hasResponded = FALSE
    /\ error = Null
    /\ timeLeft = RemainingSeconds(pendingStatus.timeout_at, now)
    /\ intervals = 1
    /\ pending = <<>>
    /\ acked = 0
    /\ lastEvent = Event("mount", 0, FALSE)
    /\ InitDialog

(* The enclosing view passes a new pendingStatus.timeout_at.  timeLeft is  *)
(* state and keeps its value until the next tick.                          *)
TimeoutChange(t) ==
    /\ mounted
    /\ t # pendingStatus.timeout_at
    /\ pendingStatus' = [pendingStatus EXCEPT !.timeout_at = t]
    /\ intervals' = EffectRestart(hasResponded, intervals)
    /\ lastEvent' = Event("timeout", 0, FALSE)
    /\ UNCHANGED <<executionProcessId, now, mounted, answers, isResponding,
                   hasResponded, error, timeLeft, pending, acked>>
    /\ UNCHANGED dialogVars

NextProps ==
    \/ Next
    \/ \E t \in TimeoutChoices : TimeoutChange(t)

SpecProps == InitProps /\ [][NextProps]_vars

----------------------------------------------------------------------------
(* The collector that stays mounted, with well-formed timestamps, a timer  *)
(* whose callback keeps being run while the interval is active, a clock    *)
(* that keeps advancing (up to MaxNow, which no timeout exceeds), and      *)
(* respond calls that all complete.  The user is under no obligation.      *)

RespondCompletes == RespondResolves \/ \E e \in Failures : RespondRejects(e)

NextLive ==
    \/ IntervalTick
    \/ ClockAdvance
    \/ \E q \in QuestionIndexes :
          \E i \in ClickedOptions(Questions[q + 1]) : ClickOption(q, i)
    \/ \E q \in QuestionIndexes : ClickOther(q)
    \/ \E q \in QuestionIndexes : \E text \in Texts : TypeText(q, text)
    \/ ClickSubmit
    \/ RespondCompletes

SpecLive ==
    /\ InitProps
    /\ [][NextLive]_vars
    /\ WF_vars(IntervalTick)
    /\ WF_vars(ClockAdvance)
    /\ WF_vars(RespondCompletes)

----------------------------------------------------------------------------
(* NotionImportDialog.  Its controls exist while the modal is visible; the *)
(* import call, once made, completes whether or not the modal still is.    *)

importableTasks ==
    IF preview.status = "success" THEN preview.importable ELSE {}

allSelected == importableTasks # {} /\ importableTasks \subseteq selectedIds

(* The preview query completes *)
PreviewLoads(importable) ==
    /\ preview.status = "loading"
    /\ preview' = PreviewOf(importable)
    /\ UNCHANGED <<selectedIds, importStatus, visible, modalCalls, importCalls>>
    /\ UNCHANGED collectorVars

PreviewFails ==
    /\ preview.status = "loading"
    /\ preview' = PreviewError
    /\ UNCHANGED <<selectedIds, importStatus, visible, modalCalls, importCalls>>
    /\ UNCHANGED collectorVars

(* The button is rendered when the preview has an importable task *)
handleSelectAll ==
    /\ visible
    /\ importableTasks # {}
    /\ selectedIds' = IF allSelected THEN {} ELSE importableTasks
    /\ UNCHANGED <<preview, importStatus, visible, modalCalls, importCalls>>
    /\ UNCHANGED collectorVars

(* The checkbox of a task is disabled unless the task will be imported *)
toggleTask(notionId) ==
    /\ visible
    /\ notionId \in importableTasks
    /\ selectedIds' = IF notionId \in selectedIds
                      THEN selectedIds \ {notionId}
                      ELSE selectedIds \cup {notionId}
    /\ UNCHANGED <<preview, importStatus, visible, modalCalls, importCalls>>
    /\ UNCHANGED collectorVars

(* disabled={selectedIds.size === 0 || importMutation.isPending} *)
ImportDisabled(selected, status) == selected = {} \/ status = "pending"

(* The Import button: importMutation.mutateAsync(Array.from(selectedIds)) *)
handleImport ==
    /\ visible
    /\ ~ImportDisabled(selectedIds, importStatus)
    /\ importStatus' = "pending"
    /\ importCalls' = Append(importCalls, selectedIds)
    /\ UNCHANGED <<preview, selectedIds, visible, modalCalls>>
    /\ UNCHANGED collectorVars

(* The Cancel button, the Escape key, a click outside the dialog *)
handleClose ==
    /\ visible
    /\ modalCalls' = modalCalls \o <<"reject", "hide">>
    /\ visible' = FALSE
    /\ UNCHANGED <<preview, selectedIds, importStatus, importCalls>>
    /\ UNCHANGED collectorVars

(* The import call succeeds: onSuccess of importMutation *)
ImportSucceeds ==
    /\ importCalls # <<>>
    /\ importCalls' = Tail(importCalls)
    /\ importStatus' = "success"
    /\ modalCalls' = modalCalls \o <<"invalidateQueries", "resolve", "hide">>
    /\ visible' = FALSE
    /\ UNCHANGED <<preview, selectedIds>>
    /\ UNCHANGED collectorVars

(* The import call fails: importMutation.error is shown *)
ImportFails ==
    /\ importCalls # <<>>
    /\ importCalls' = Tail(importCalls)
    /\ importStatus' = "error"
    /\ UNCHANGED <<preview, selectedIds, visible, modalCalls>>
    /\ UNCHANGED collectorVars

(* The collector of this specification takes no step *)
InitImportDialog == InitProps /\ pendingStatus.timeout_at = 0

NextImportDialog ==
    \/ \E importable \in SUBSET NotionIds : PreviewLoads(importable)
    \/ PreviewFails
    \/ handleSelectAll
    \/ \E notionId \in NotionIds : toggleTask(notionId)
    \/ handleImport
    \/ handleClose
    \/ ImportSucceeds
    \/ ImportFails

SpecImportDialog == InitImportDialog /\ [][NextImportDialog]_vars

----------------------------------------------------------------------------
(* Properties *)

CollectorState ==
    <<answers, isResponding, hasResponded, error, timeLeft, intervals,
      pending, acked>>

(* This step issues a respond call *)
CallIssued == Len(pending') > Len(pending)

(* C1: once a respond call has been acknowledged (hasResponded), the       *)
(* collector stays submitted: hasResponded never returns to false, no      *)
(* respond call is issued and no answer is edited afterwards, and at most  *)
(* one respond call is ever acknowledged.                                  *)
C1_SubmittedIsFinal ==
    [][ /\ acked' <= 1
        /\ (hasResponded =>
               (hasResponded' /\ ~CallIssued /\ answers' = answers)) ]_vars

(* C1 witness: a submit trigger arrived after the acknowledgement, and     *)
(* time has passed since the mount.                                        *)
C1_Witness ==
    hasResponded /\ acked = 1 /\ lastEvent.op = "submitIgnored" /\ now > 0

(* C2: at most one respond call is outstanding, isResponding is true       *)
(* exactly while one is (in a mounted collector), and a submit trigger     *)
(* that arrives while a call is in flight issues no call and changes no    *)
(* state.                                                                  *)
C2_OneCallInFlight ==
    /\ [](Len(pending) <= 1 /\ (mounted => (isResponding <=> pending # <<>>)))
    /\ [][(pending # <<>> /\ ClickSubmit) => UNCHANGED CollectorState]_vars

(* C2 witness: a submit trigger arrived while a call was in flight *)
C2_Witness ==
    isResponding /\ Len(pending) = 1 /\ lastEvent.op = "submitIgnored"

(* C3: a submit trigger with timeLeft = 0 or with an unanswered question   *)
(* issues no respond call and changes nothing; equivalently, every         *)
(* respond call is issued from a state with timeLeft > 0, all questions    *)
(* answered, isResponding false and hasResponded false.                    *)
C3_CallsOnlyWithTimeLeft ==
    [][ /\ (((timeLeft = 0 \/ ~AllAnswered(answers)) /\ ClickSubmit) =>
               UNCHANGED <<answers, isResponding, hasResponded, error,
                           pending>>)
        /\ (CallIssued =>
               (/\ Greater(timeLeft, 0)
                /\ AllAnswered(answers)
                /\ ~isResponding
                /\ ~hasResponded)) ]_vars

(* The state after a failed respond call, as C4 describes it: the message  *)
(* of the failure (the generic one for a failure that is no Error) in      *)
(* error, the answers unchanged and all answered, hasResponded and         *)
(* isResponding false.                                                     *)
FailureRecorded(e) ==
    /\ error' = (IF e.isError THEN e.message ELSE GenericFailureMessage)
    /\ answers' = answers
    /\ AllAnswered(answers')
    /\ ~hasResponded'
    /\ ~isResponding'

(* A further submit trigger would pass every guard of handleSubmit *)
RetryAccepted ==
    /\ ~(isResponding' \/ hasResponded' \/ LessEq(timeLeft', 0))
    /\ AllAnswered(answers')
    /\ executionProcessId' \notin {Undefined, <<>>}

C5_ExpiryIsFinal ==
    [][ timeLeft = 0 =>
          (/\ timeLeft' = 0
           /\ (isResponding' \/ hasResponded' \/ LessEq(timeLeft', 0))
           /\ ~CallIssued) ]_vars

(* C5 witness: the countdown expired with no submission made, and a submit *)
(* trigger that had everything else it needs was ignored.                  *)
C5_Witness ==
    /\ timeLeft = 0
    /\ error = Null
    /\ ~isResponding
    /\ ~hasResponded
    /\ AllAnswered(answers)
    /\ executionProcessId = <<"p">>
    /\ lastEvent.op = "submitIgnored"

(* C6: from the acknowledgement on no interval is active, and timeLeft     *)
(* keeps the value it had just before the acknowledgement.                 *)
C6_PausedCountdownKeepsTimeLeft ==
    /\ [](hasResponded => intervals = 0)
    /\ [][hasResponded' => timeLeft' = timeLeft]_vars

(* C6 witness: submitted, the timeout instant has passed, and timeLeft is  *)
(* still positive.                                                         *)
C6_Witness ==
    /\ hasResponded
    /\ Greater(timeLeft, 0)
    /\ ~IsNaN(pendingStatus.timeout_at)
    /\ now >= pendingStatus.timeout_at

(* C7: with a malformed timeout or request timestamp the countdown is      *)
(* expired from the first state on: timeLeft is 0, percent is 0, the       *)
(* collector is disabled and no respond call is issued.                    *)
C7_MalformedTimestampsExpire ==
    (IsNaN(pendingStatus.timeout_at) \/ IsNaN(pendingStatus.requested_at)) =>
        (timeLeft = 0 /\ percent = 0 /\ disabled /\ pending = <<>>)

(* C8: a submit trigger that passes the guard while the execution process  *)
(* id is absent sets error to 'Missing executionProcessId', issues no      *)
(* respond call and leaves isResponding, hasResponded and the answers as   *)
(* they were (false, false, unchanged).                                    *)
C8_MissingProcessIdIsLocalError ==
    [][ (/\ executionProcessId \in {Undefined, <<>>}
         /\ ~isResponding
         /\ ~hasResponded
         /\ ~LessEq(timeLeft, 0)
         /\ AllAnswered(answers)
         /\ ClickSubmit)
        => (/\ error' = "Missing executionProcessId"
            /\ ~CallIssued
            /\ pending' = pending
            /\ ~isResponding'
            /\ ~hasResponded'
            /\ answers' = answers) ]_vars

(* C8 witness: the submit trigger found an empty execution process id *)
C8_Witness ==
    /\ lastEvent.op = "submitNoId"
    /\ error = "Missing executionProcessId"
    /\ executionProcessId = <<>>

(* C9: every respond call carries the execution process id and the answers *)
(* held when submit was triggered, one per question with entry k carrying  *)
(* question index k; a payload that was sent never changes.                *)
C9_PayloadIsAnswersAtSubmit ==
    [][ /\ (CallIssued =>
               (/\ pending' = Append(pending,
                       [execution_process_id |-> executionProcessId,
                        answers |-> answers])
                /\ Len(answers) = Len(Questions)
                /\ \A k \in 1..Len(answers) : answers[k].question_index = k - 1))
        /\ (~CallIssued =>
               (pending' = pending
                    \/ (pending # <<>> /\ pending' = Tail(pending)))) ]_vars

(* C9 witness: option 0 of the single-select question and options 0 and 1  *)
(* of the multi-select question chosen, and sent.                          *)
C9_Witness ==
    pending =
        << [execution_process_id |-> <<"p">>,
            answers |->
                << [question_index |-> 0, selected_options |-> <<0>>,
                    custom_text |-> Undefined],
                   [question_index |-> 1, selected_options |-> <<0, 1>>,
                    custom_text |-> Undefined] >>] >>

(* C10: on a single-select question, choosing option i yields selected     *)
(* options [i] and no custom text, whatever the answer was before.         *)
C10_SingleSelectOptionReplaces ==
    [][ \A q \in QuestionIndexes :
          \A i \in ClickedOptions(Questions[q + 1]) :
            (~Questions[q + 1].multiSelect /\ ClickOption(q, i)) =>
                (/\ answers'[q + 1].selected_options = <<i>>
                 /\ answers'[q + 1].custom_text = Undefined) ]_vars

(* C10 witness: option 1 chosen while 'other' was active *)
C10_Witness ==
    /\ lastEvent = Event("option", 0, TRUE)
    /\ answers[1].selected_options = <<1>>
    /\ answers[1].custom_text = Undefined

(* What a click on the checkbox of option i makes of an answer: the box   *)
(* shows whether i is selected and reports the opposite.                  *)
ToggleOption(question, answer, i) ==
    handleOptionChange(question, answer, i,
                       ~Includes(answer.selected_options, i))

(* C11: for a multi-select question and every reachable answer, toggling   *)
(* any option i of the question twice in a row gives back exactly the      *)
(* selected options the answer had, and leaves its custom text as it was.  *)
C11_DoubleToggleRestores ==
    \A q \in QuestionIndexes :
        Questions[q + 1].multiSelect =>
            \A i \in 0..(Questions[q + 1].numOptions - 1) :
                LET answer == answers[q + 1]
                    twice == ToggleOption(Questions[q + 1],
                                 ToggleOption(Questions[q + 1], answer, i), i)
                IN  /\ twice.selected_options = answer.selected_options
                    /\ twice.custom_text = answer.custom_text

(* Options 9 and 10 are both selected, with a custom text, after a toggle *)
C11_Witness ==
    /\ lastEvent.op = "option"
    /\ lastEvent.q = 1
    /\ Len(answers[2].selected_options) = 2
    /\ Includes(answers[2].selected_options, 9)
    /\ answers[2].custom_text = <<" ", "a">>

(* C12: a click on 'other' that enables it sets the custom text to the     *)
(* empty string and, on a single-select question, empties the selected     *)
(* options, while on a multi-select question the selected options stay as  *)
(* they were; a click that disables it sets the custom text to absent and  *)
(* leaves the selected options unchanged.  (The radio item of a            *)
(* single-select question only ever enables.)                              *)
C12_OtherToggle ==
    [][ \A q \in QuestionIndexes :
          (lastEvent'.op = "other" /\ ClickOther(q)) =>
              LET multi == Questions[q + 1].multiSelect
                  before == answers[q + 1]
                  after == answers'[q + 1]
                  enabling == multi => before.custom_text = Undefined
              IN  IF enabling
                  THEN /\ after.custom_text = <<>>
                       /\ after.selected_options =
                              IF multi THEN before.selected_options ELSE <<>>
                  ELSE /\ after.custom_text = Undefined
                       /\ after.selected_options = before.selected_options
      ]_vars

(* 'other' was just enabled on the multi-select question, whose two        *)
(* selected options are still there                                        *)
C12_Witness ==
    /\ lastEvent = Event("other", 1, FALSE)
    /\ Len(answers[2].selected_options) = 2
    /\ answers[2].custom_text = <<>>

(* Every answer has a selected option or a custom text with a character   *)
(* that is no white space                                                  *)
EveryAnswerNonEmpty ==
    \A k \in 1..Len(answers) :
        \/ Len(answers[k].selected_options) >= 1
        \/ /\ answers[k].custom_text # Undefined
           /\ \E j \in 1..Len(answers[k].custom_text) :
                  answers[k].custom_text[j] # " "

(* C13: in every reachable state allQuestionsAnswered is true exactly when *)
(* every answer has at least one selected option or a custom text that is  *)
(* non-blank after trimming; it is recomputed from the current answers, so *)
(* in any state where some answer is empty (again), a submit issues no     *)
(* respond call and changes nothing of the collector.                      *)
C13_AllAnsweredIsRecomputed ==
    /\ [](allQuestionsAnswered <=> EveryAnswerNonEmpty)
    /\ [][ (~EveryAnswerNonEmpty /\ ClickSubmit) =>
               (~CallIssued /\ UNCHANGED CollectorState) ]_vars

(* A submit was ignored while the collector was enabled: the first answer *)
(* had been blanked, the second one has a selected option                  *)
C13_Witness ==
    /\ lastEvent.op = "submitIgnored"
    /\ ~isResponding /\ ~hasResponded /\ timeLeft > 0
    /\ answers[1].selected_options = <<>>
    /\ answers[1].custom_text = <<" ">>
    /\ Len(answers[2].selected_options) >= 1

(* C14: for all request, timeout and current instants, the total is        *)
(* max(1, whole seconds of timeout - request), the remaining time computed *)
(* at mount and by every tick is max(0, whole seconds of timeout - now),   *)
(* and percent is 100 * remaining / total rounded to the nearest integer   *)
(* (halves upwards) and clamped to 0..100; so the remaining time is never  *)
(* negative, percent is within 0..100 also when now precedes the request   *)
(* or the timeout precedes the request, and with timeout = request + 60 s  *)
(* the values are 0 and 0 at request + 61 s, 30 and 50 at request + 30 s.  *)
C14_CountdownArithmetic ==
    LET request == pendingStatus.requested_at
        timeout == pendingStatus.timeout_at
        AtLeast(low, x) == IF x < low THEN low ELSE x
        AtMost(high, x) == IF x > high THEN high ELSE x
        total == AtLeast(1, (timeout - request) \div 1000)
        remaining == AtLeast(0, (timeout - now) \div 1000)
        rounded == (200 * timeLeft + total) \div (2 * total)
        computedNow == lastEvent.op \in {"mount", "tick"}
    IN  /\ totalSeconds = total
        /\ computedNow => timeLeft = remaining
        /\ timeLeft >= 0
        /\ percent = AtLeast(0, AtMost(100, rounded))
        /\ percent \in 0..100
        /\ (computedNow /\ timeout = request + 60000 /\ now = request + 61000)
               => (timeLeft = 0 /\ percent = 0)
        /\ (computedNow /\ timeout = request + 60000 /\ now = request + 30000)
               => (timeLeft = 30 /\ percent = 50)

(* C15: for a multi-select question with any number of options (ten or     *)
(* more included), after any sequence of option toggles the selected       *)
(* options hold no index twice and are in ascending numeric order.         *)
C15_SelectionAscending ==
    \A q \in QuestionIndexes :
        Questions[q + 1].multiSelect =>
            LET selected == answers[q + 1].selected_options
            IN  \A j, k \in 1..Len(selected) :
                    j < k => selected[j] < selected[k]

(* C16: the answer of a single-select question has, in every reachable     *)
(* state, at most one selected option, and never a selected option         *)
(* together with an active 'other': if it has a selected option, its       *)
(* custom text is absent.                                                  *)
C16_SingleSelectExclusive ==
    \A q \in QuestionIndexes :
        ~Questions[q + 1].multiSelect =>
            /\ Len(answers[q + 1].selected_options) <= 1
            /\ (answers[q + 1].selected_options # <<>> =>
                    answers[q + 1].custom_text = Undefined)

(* 'other' was just chosen on the single-select question, which had no    *)
(* 'other' before: the text is empty and no option is selected            *)
C16_Witness ==
    /\ lastEvent = Event("other", 0, FALSE)
    /\ ~Questions[1].multiSelect
    /\ answers[1].custom_text = <<>>
    /\ answers[1].selected_options = <<>>

TimerBounded ==
    /\ intervals \in {0, 1}
    /\ ~mounted => intervals = 0
    /\ hasResponded => intervals = 0

(* A tick that computes remaining = 0 leaves no interval active *)
ExpiryTickClears ==
    (lastEvent'.op = "tick" /\ IntervalTick /\ timeLeft' = 0) => intervals' = 0

(* C18 as stated: at most one interval is active at any time, and none is  *)
(* outstanding after the unmount, after a tick has computed remaining = 0, *)
(* or after a submission has succeeded, in every ordering of these events  *)
(* and of changes of the timeout timestamp: once the timer has been        *)
(* cancelled on one of these paths, no interval is active afterwards.      *)
C18_TimerCancelledOnEveryExit ==
    /\ []TimerBounded
    /\ [][ExpiryTickClears]_vars
    /\ [][intervals = 0 => intervals' = 0]_vars

(* C18, amended: at most one interval is active at any time; none is       *)
(* active after the unmount or after a submission has succeeded, whatever  *)
(* happens afterwards; a tick that computes remaining = 0 clears its       *)
(* interval, and none is active from then on until the timeout timestamp   *)
(* changes: a change of the timeout timestamp while mounted and not paused *)
(* clears the running interval and starts a new one, also after expiry.    *)
C18_TimerCancelledUntilRestart ==
    /\ []TimerBounded
    /\ [][ExpiryTickClears]_vars
    /\ [][ (intervals = 0 /\ intervals' # 0) =>
               /\ pendingStatus'.timeout_at # pendingStatus.timeout_at
               /\ mounted /\ ~hasResponded /\ timeLeft = 0 ]_vars
    /\ [][ (pendingStatus'.timeout_at # pendingStatus.timeout_at) =>
               intervals' = IF hasResponded THEN 0 ELSE 1 ]_vars

(* The timeout timestamp changed after the submission had succeeded: no    *)
(* interval was started                                                    *)
C18_Witness ==
    /\ lastEvent.op = "timeout"
    /\ hasResponded
    /\ mounted
    /\ intervals = 0

(* C19: if a respond call is in flight when the countdown reaches 0 and    *)
(* the acknowledgement arrives afterwards (the component still mounted),   *)
(* the success is applied all the same: hasResponded becomes true,         *)
(* isResponding false, no error is shown, and timeLeft stays 0.            *)
C19_LateAckStillSucceeds ==
    [][ (pending # <<>> /\ mounted /\ timeLeft = 0 /\ RespondResolves) =>
            /\ hasResponded'
            /\ ~isResponding'
            /\ error' = Null
            /\ timeLeft' = 0 ]_vars

(* The acknowledgement has just been applied with the countdown at 0 *)
C19_Witness ==
    /\ lastEvent.op = "resolved"
    /\ timeLeft = 0
    /\ hasResponded
    /\ ~isResponding
    /\ error = Null
    /\ acked = 1

(* C20: the answer list always has exactly one slot per question and slot  *)
(* k carries question index k; every step that changes the answers is an   *)
(* edit (option toggle, 'other' toggle, text edit) of one question i made  *)
(* while the collector is not disabled (not submitting, not submitted,     *)
(* not expired), it replaces only slot i and leaves every other slot,      *)
(* isResponding, hasResponded and error unchanged.                         *)
C20_EditReplacesOneSlot ==
    /\ [](/\ Len(answers) = Len(Questions)
          /\ \A k \in 1..Len(answers) : answers[k].question_index = k - 1)
    /\ [][ answers' # answers =>
               /\ lastEvent'.op \in {"option", "other", "text"}
               /\ lastEvent'.q \in QuestionIndexes
               /\ \A k \in 1..Len(answers) :
                      k # lastEvent'.q + 1 => answers'[k] = answers[k]
               /\ ~isResponding /\ ~hasResponded
               /\ ~(~IsNaN(timeLeft) /\ timeLeft <= 0)
               /\ mounted
               /\ isResponding' = isResponding
               /\ hasResponded' = hasResponded
               /\ error' = error ]_vars

(* Both slots have been edited, the second one last, with an error shown *)
C20_Witness ==
    /\ lastEvent = Event("text", 1, TRUE)
    /\ answers[1].selected_options = <<0>>
    /\ answers[2].custom_text = <<" ">>
    /\ answers[2].selected_options # <<>>
    /\ error = "network error"

(* Submitted, or expired with no respond call in flight *)
Terminal == hasResponded \/ (timeLeft = 0 /\ pending = <<>>)

(* C21: with well-formed timestamps, the collector mounted, fair timer     *)
(* ticks, advancing time and every respond call completing, the collector  *)
(* eventually reaches a terminal state, Submitted or expired with no call  *)
(* in flight, and stays there for ever.                                    *)
C21_EventuallyTerminal == <>[]Terminal

(* Expired without a response: the call that was in flight when the        *)
(* countdown reached 0 has been rejected                                   *)
C21_Witness ==
    /\ lastEvent.op = "rejected"
    /\ timeLeft = 0
    /\ pending = <<>>
    /\ ~hasResponded
    /\ ~isResponding
    /\ error = GenericFailureMessage

(* The number of calls of c made on the modal or the query client *)
CallsOf(c) == Cardinality({k \in 1..Len(modalCalls) : modalCalls[k] = c})

(* C22: in the Notion import dialog the modal's promise is settled at most *)
(* once per opening: over every interleaving of Import, Cancel/close and   *)
(* import completion, modal.resolve and modal.reject are never both        *)
(* called, and modal.resolve is called only when an import has succeeded,  *)
(* right after the 'tasks' cache invalidation, and only if the dialog had  *)
(* not been cancelled before.                                              *)
C22_ModalSettledOnce ==
    /\ CallsOf("resolve") + CallsOf("reject") <= 1
    /\ ~(CallsOf("resolve") > 0 /\ CallsOf("reject") > 0)
    /\ \A k \in 1..Len(modalCalls) :
           modalCalls[k] = "resolve" =>
               /\ importStatus = "success"
               /\ k > 1
               /\ modalCalls[k - 1] = "invalidateQueries"
               /\ \A j \in 1..k : modalCalls[j] # "reject"

====
